---- MODULE Spec2Model ----
(***************************************************************************)
(* Session and presence manager of the chat gateway: ClientManager of      *)
(* server/src/client/client-manager.ts.  Every socket.io event handler is  *)
(* one action; the login handler, which is async, is one action per        *)
(* synchronous stretch between two awaits.                                 *)
(***************************************************************************)
EXTENDS Integers, Sequences, FiniteSets, TLC

\* ---------------------------------------------------------------- bounds
NumSockets == 2        \* physical connections 1..NumSockets
NumPrior == 1          \* identities persisted by an earlier run of the server
MaxEvents == 3         \* Spec: login, usr-typ, usr-msg events and clock advances
MsgSockets == 1        \* SpecMsg: connections opened
MsgLogins == 2         \* SpecMsg: login events
MsgMax == 6            \* SpecMsg: usr-typ and usr-msg events
MsgEvents == 7         \* SpecMsg: logins, messages and ticks together
MsgTicks == 2          \* SpecMsg: clock advances

Socks == 1..NumSockets
PriorIds == 1..NumPrior

\* ------------------------------------------------------ program constants
Capacity == 5          \* new RateLimit(5, 5000): actions per window
Window == 5000         \* new RateLimit(5, 5000): window in ms
MaxMessageLength == 256

\* The clock advances in steps that never land exactly on a window's end.
TickMs == (Window \div 2) + 1

NoClient == 0          \* undefined: Map.get of a missing key
NoId == 0              \* token?.id of a null token
NoName == "none"       \* request.name absent

VARIABLES
    conn,        \* [Socks -> {"idle","open","closed"}]: the transport's view of each socket
    clients,     \* this.clients: identity id -> Client (a reference into heap)
    sockets,     \* this.sockets: socket id -> Client (a reference into heap)
    heap,        \* the Client objects ever constructed: <<[user, socks]>>
    store,       \* the User table: identity id -> [name, bot]
    nextId,      \* the value snowFlake.nextId() returns next
    issued,      \* the identity ids some signed token carries
    pending,     \* the login handlers suspended at an await
    listeners,   \* [Socks -> Nat]: usr-typ/usr-msg listener pairs installed on the socket
    rl,          \* messageRateLimit: socket id -> [count, start]
    now,         \* the clock, ms
    logins,      \* login events handled so far
    msgs,        \* usr-typ / usr-msg events handled so far
    last,        \* the event handled last: what it was, what it emitted, whether it threw
    win          \* per socket, the messages of its current window and how many were shown

vars == <<conn, clients, sockets, heap, store, nextId, issued, pending,
          listeners, rl, now, logins, msgs, last, win>>

\* ------------------------------------------------------------- utilities
Has(map, k) == k \in DOMAIN map
Get(map, k) == IF k \in DOMAIN map THEN map[k] ELSE NoClient
Put(map, k, v) == [x \in DOMAIN map \cup {k} |-> IF x = k THEN v ELSE map[x]]
Del(map, k) == [x \in DOMAIN map \ {k} |-> map[x]]
Empty == [x \in {} |-> 0]
Min(a, b) == IF a < b THEN a ELSE b

\* The registry part of the state, as the handlers read and write it.
Reg == [clients |-> clients, sockets |-> sockets, heap |-> heap]

\* -------------------------------------------------------------- Client
\* Client.registerSocket: the socket joins the identity's connection set.
RegisterSocket(c, s) == [c EXCEPT !.socks = @ \cup {s}]

\* Client.unregisterSocket: the socket leaves the identity's connection set;
\* the result tells whether the set became empty.
UnregisterSocket(c, s) ==
    [client |-> [c EXCEPT !.socks = @ \ {s}], last |-> (c.socks \ {s}) = {}]

\* Client.serialize / Client.id
IdOf(h, c) == h[c].user.id

\* -------------------------------------------------------- TokenService
\* A request carries no token, a token that does not verify, or a token some
\* ready event delivered (or an earlier run of the server signed).
NoToken == [kind |-> "none", id |-> NoId]
BadToken == [kind |-> "bad", id |-> NoId]
ValidToken(i) == [kind |-> "valid", id |-> i]

\* A decode that reads the payload of a token without verifying it: a token
\* that does not verify still yields the id written in it.
DecodeUnverified(tok) ==
    IF tok.kind = "valid" THEN tok.id ELSE IF tok.kind = "bad" THEN 1 ELSE NoId

\* A decode that accepts no token at all: every login is taken as anonymous.
DecodeNothing(tok) == NoId

\* tokenService.decode inside the try/catch of onClientAuthenticated: the id
\* the token carries, or nothing when there is no token or decode throws.
DecodeOrNull(tok) == IF tok.kind = "valid" THEN tok.id ELSE NoId

\* ------------------------------------------------------------- events
\* One emitted socket.io event.  `to` is the socket of a unicast, 0 for a
\* broadcast (io.emit).  `via` tells a usr-msg sent by onClientMessageReceived
\* itself ("normal") from one sent by a command handler ("command").
Ev(type, to, id) ==
    [type |-> type, to |-> to, id |-> id, members |-> {}, via |-> "", len |-> 0]
Ready(s, id, members) == [Ev("ready", s, id) EXCEPT !.members = members]
Message(id, via, len) == [Ev("usr-msg", 0, id) EXCEPT !.via = via, !.len = len]

Count(out, type) == Cardinality({i \in DOMAIN out : out[i].type = type})
CountFor(out, type, id) ==
    Cardinality({i \in DOMAIN out : out[i].type = type /\ out[i].id = id})

\* ------------------------------------------------- onClientDisconnect
\* onClientDisconnect without the `client &&` test of line 129: the branch
\* of the last socket is taken for a socket that has no client.
OnClientDisconnectUnguarded(reg, s) ==
    LET client == Get(reg.sockets, s)
        sockets1 == Del(reg.sockets, s)
    IN  IF client = NoClient
        THEN [clients |-> Del(reg.clients, NoId), sockets |-> sockets1,
              heap |-> reg.heap, out |-> <<Ev("sys-leave", 0, NoId)>>]
        ELSE LET u == UnregisterSocket(reg.heap[client], s)
                 heap1 == [reg.heap EXCEPT ![client] = u.client]
                 id == IdOf(reg.heap, client)
             IN  IF u.last
                 THEN [clients |-> Del(reg.clients, id), sockets |-> sockets1,
                       heap |-> heap1, out |-> <<Ev("sys-leave", 0, id)>>]
                 ELSE [clients |-> reg.clients, sockets |-> sockets1,
                       heap |-> heap1, out |-> <<>>]

\* Lines 124-133: the socket leaves the reverse map; when it was attached to a
\* client and was that client's last socket, the client's id leaves the
\* primary map and sys-leave is broadcast.
OnClientDisconnect(reg, s) ==
    LET client == Get(reg.sockets, s)
        sockets1 == Del(reg.sockets, s)
    IN  IF client = NoClient
        THEN [clients |-> reg.clients, sockets |-> sockets1, heap |-> reg.heap,
              out |-> <<>>]
        ELSE LET u == UnregisterSocket(reg.heap[client], s)
                 heap1 == [reg.heap EXCEPT ![client] = u.client]
                 id == IdOf(reg.heap, client)
             IN  IF u.last
                 THEN [clients |-> Del(reg.clients, id), sockets |-> sockets1,
                       heap |-> heap1, out |-> <<Ev("sys-leave", 0, id)>>]
                 ELSE [clients |-> reg.clients, sockets |-> sockets1,
                       heap |-> heap1, out |-> <<>>]

\* ------------------------------------------------ onClientAuthenticated
\* Lines 57-60: a socket that is already in the reverse map is unregistered
\* first.
UnregisterIfKnown(reg, s) ==
    IF Has(reg.sockets, s)
    THEN OnClientDisconnect(reg, s)
    ELSE [clients |-> reg.clients, sockets |-> reg.sockets, heap |-> reg.heap,
          out |-> <<>>]

\* Lines 107-121: the socket is attached to the client and indexed in the
\* reverse map, ready goes to the socket, and sys-join is broadcast for a
\* client this handler created.
Members(reg) == {IdOf(reg.heap, reg.clients[k]) : k \in DOMAIN reg.clients}

\* The attachment with line 95 moved out of the `!client` branch: the client
\* found under the id gets a new last-login time.
AttachSocketStamping(reg, s, client, isNew) ==
    LET heap1 == [reg.heap EXCEPT ![client] =
                     [RegisterSocket(@, s) EXCEPT !.user.lastLogin = now]]
        reg1 == [clients |-> reg.clients, sockets |-> Put(reg.sockets, s, client),
                 heap |-> heap1]
        id == IdOf(heap1, client)
    IN  [clients |-> reg1.clients, sockets |-> reg1.sockets, heap |-> reg1.heap,
         out |-> <<Ready(s, id, Members(reg1))>>
                 \o (IF isNew THEN <<Ev("sys-join", 0, id)>> ELSE <<>>)]

\* The attachment with lines 119-121 placed before line 110: the join of a
\* new client is broadcast before its ready is sent.
AttachSocketJoinFirst(reg, s, client, isNew) ==
    LET heap1 == [reg.heap EXCEPT ![client] = RegisterSocket(@, s)]
        reg1 == [clients |-> reg.clients, sockets |-> Put(reg.sockets, s, client),
                 heap |-> heap1]
        id == IdOf(heap1, client)
    IN  [clients |-> reg1.clients, sockets |-> reg1.sockets, heap |-> reg1.heap,
         out |-> (IF isNew THEN <<Ev("sys-join", 0, id)>> ELSE <<>>)
                 \o <<Ready(s, id, Members(reg1))>>]

AttachSocket(reg, s, client, isNew) ==
    LET heap1 == [reg.heap EXCEPT ![client] = RegisterSocket(@, s)]
        reg1 == [clients |-> reg.clients, sockets |-> Put(reg.sockets, s, client),
                 heap |-> heap1]
        id == IdOf(heap1, client)
    IN  [clients |-> reg1.clients, sockets |-> reg1.sockets, heap |-> reg1.heap,
         out |-> <<Ready(s, id, Members(reg1))>>
                 \o (IF isNew THEN <<Ev("sys-join", 0, id)>> ELSE <<>>)]

\* Lines 100-104: a Client is constructed around the user record and stored
\* under the id, replacing whatever the primary map held there.
NewClient(reg, id, name, bot, lastLogin) ==
    LET c == [user |-> [id |-> id, name |-> name, bot |-> bot, lastLogin |-> lastLogin],
              socks |-> {}]
        heap1 == Append(reg.heap, c)
    IN  [clients |-> Put(reg.clients, id, Len(heap1)), sockets |-> reg.sockets,
         heap |-> heap1]

\* normalizeName inside the try/catch of lines 87-93: the override replaces
\* the name unless it is absent or normalizeName throws.
ValidNames == {"Al"}
OverrideName(name, reqName) ==
    IF reqName # NoName /\ reqName \in ValidNames THEN reqName ELSE name

\* Line 83: "anon-" + socket.id.substr(0, 6)
AnonName(s) == "anon-" \o ToString(s)

\* What a login request carries besides the token.
Profiles == {[name |-> NoName, bot |-> FALSE], [name |-> "Al", bot |-> TRUE]}
Tokens == {NoToken, BadToken} \cup {ValidToken(i) : i \in issued}
Requests == {[token |-> t, name |-> p.name, bot |-> p.bot] : t \in Tokens, p \in Profiles}

\* The connections that completed a login as identity id, were not
\* unregistered since, and whose transport is connected.
LiveConns(id) ==
    {s \in DOMAIN sockets : conn[s] = "open" /\ IdOf(heap, sockets[s]) = id}
OthersLive(s, id) == LiveConns(id) \ {s}

\* pending is a multiset of suspended handlers: two handlers in the same
\* position differ in n alone.
Copies(P, r) == {q \in P : [q EXCEPT !.n = 1] = [r EXCEPT !.n = 1]}
AddPending(P, r) == P \cup {[r EXCEPT !.n = Cardinality(Copies(P, r)) + 1]}
RemovePending(P, r) == P \ {[r EXCEPT !.n = Cardinality(Copies(P, r))]}

Init ==
    /\ conn = [s \in Socks |-> "idle"]
    /\ clients = Empty
    /\ sockets = Empty
    /\ heap = <<>>
    /\ store = [i \in PriorIds |-> [name |-> "Bo", bot |-> FALSE, lastLogin |-> 0]]
    /\ nextId = NumPrior + 1
    /\ issued = PriorIds
    /\ pending = {}
    /\ listeners = [s \in Socks |-> 0]
    /\ rl = Empty
    /\ now = 0
    /\ logins = 0
    /\ msgs = 0
    /\ last = [op |-> "init", s |-> 0, known |-> FALSE, out |-> <<>>, err |-> FALSE,
               text |-> "", tok |-> "", id |-> NoId, after |-> FALSE]
    /\ win = Empty

Did(op, s, known, out, err, text) ==
    [op |-> op, s |-> s, known |-> known, out |-> out, err |-> err, text |-> text,
     tok |-> "", id |-> NoId, after |-> FALSE]

\* A step of a login handler: the kind of token it was given, the id it
\* resolved, and whether it began after another connection, still live, had
\* been attached to that id.
DidLogin(op, s, known, out, err, tok, id, after) ==
    [op |-> op, s |-> s, known |-> known, out |-> out, err |-> err, text |-> "",
     tok |-> tok, id |-> id, after |-> after]

\* Lines 48-55: the transport reports a new connection.  Socket ids are handed
\* out in the order of connection.
OnClientConnected(s) ==
    /\ conn[s] = "idle"
    /\ \A r \in Socks : r < s => conn[r] # "idle"
    /\ conn' = [conn EXCEPT ![s] = "open"]
    /\ last' = Did("connect", s, FALSE, <<Ev("sys-commands", s, NoId)>>, FALSE, "")
    /\ UNCHANGED <<clients, sockets, heap, store, nextId, issued, pending,
                   listeners, rl, now, logins, msgs, win>>

\* The transport's disconnect event: the listener of line 51.
Disconnect(s) ==
    /\ conn[s] = "open"
    /\ conn' = [conn EXCEPT ![s] = "closed"]
    /\ LET r == OnClientDisconnect(Reg, s)
       IN  /\ clients' = r.clients
           /\ sockets' = r.sockets
           /\ heap' = r.heap
           /\ last' = Did("disconnect", s, Has(sockets, s), r.out, FALSE, "")
    /\ UNCHANGED <<store, nextId, issued, pending, listeners, rl, now, logins, msgs, win>>

\* Lines 57-78: the login listener up to its first await.  A login for an id
\* that is in the primary map runs to its end without suspending (lines
\* 107-121); any other suspends at User.findOne.
LoginStart(s, req) ==
    /\ conn[s] = "open"
    /\ logins' = logins + 1
    /\ LET r0 == UnregisterIfKnown(Reg, s)
           tid == DecodeOrNull(req.token)
           id == IF tid # NoId THEN tid ELSE nextId
       IN  /\ nextId' = IF tid # NoId THEN nextId ELSE nextId + 1
           /\ IF Has(r0.clients, id)
              THEN LET r1 == AttachSocket(r0, s, r0.clients[id], FALSE)
                   IN  /\ clients' = r1.clients
                       /\ sockets' = r1.sockets
                       /\ heap' = r1.heap
                       /\ issued' = issued \cup {id}
                       /\ listeners' = [listeners EXCEPT ![s] = @ + 1]
                       /\ pending' = pending
                       /\ last' = DidLogin("loginDone", s, Has(sockets, s),
                                           r0.out \o r1.out, FALSE, req.token.kind, id,
                                           OthersLive(s, id) # {})
              ELSE /\ clients' = r0.clients
                   /\ sockets' = r0.sockets
                   /\ heap' = r0.heap
                   /\ pending' = AddPending(pending,
                        [s |-> s, id |-> id, pc |-> "findOne", tok |-> req.token.kind,
                         reqName |-> req.name, bot |-> req.bot, name |-> "", lastLogin |-> 0,
                         after |-> OthersLive(s, id) # {}, n |-> 1])
                   /\ last' = DidLogin("login", s, Has(sockets, s), r0.out, FALSE,
                                       req.token.kind, id, OthersLive(s, id) # {})
                   /\ UNCHANGED <<issued, listeners, win>>
    /\ UNCHANGED <<conn, store, rl, now, msgs, win>>

\* Lines 78-85: User.findOne resolved.  A stored user goes on to lines 87-98
\* and suspends at user.save; a missing one is constructed and the handler
\* suspends at imageService.getRandomImage.
FindOneDone(p) ==
    /\ p \in pending
    /\ p.n = 1
    /\ p.pc = "findOne"
    /\ pending' = AddPending(RemovePending(pending, p),
         IF Has(store, p.id)
         THEN [p EXCEPT !.pc = "save", !.lastLogin = now,
                        !.name = OverrideName(store[p.id].name, p.reqName)]
         ELSE [p EXCEPT !.pc = "image", !.name = AnonName(p.s)])
    /\ last' = Did("findOne", p.s, Has(sockets, p.s), <<>>, FALSE, "")
    /\ UNCHANGED <<conn, clients, sockets, heap, store, nextId, issued,
                   listeners, rl, now, logins, msgs, win>>

\* Lines 84-98: getRandomImage resolved; the handler suspends at user.save.
ImageDone(p) ==
    /\ p \in pending
    /\ p.n = 1
    /\ p.pc = "image"
    /\ pending' = AddPending(RemovePending(pending, p),
         [p EXCEPT !.pc = "save", !.lastLogin = now,
                   !.name = OverrideName(p.name, p.reqName)])
    /\ last' = Did("image", p.s, Has(sockets, p.s), <<>>, FALSE, "")
    /\ UNCHANGED <<conn, clients, sockets, heap, store, nextId, issued,
                   listeners, rl, now, logins, msgs, win>>

\* Lines 98-121: user.save resolved; the handler runs to its end.
SaveDone(p) ==
    /\ p \in pending
    /\ p.n = 1
    /\ p.pc = "save"
    /\ pending' = RemovePending(pending, p)
    /\ store' = Put(store, p.id, [name |-> p.name, bot |-> p.bot, lastLogin |-> p.lastLogin])
    /\ LET r0 == NewClient(Reg, p.id, p.name, p.bot, p.lastLogin)
           r1 == AttachSocket(r0, p.s, r0.clients[p.id], TRUE)
       IN  /\ clients' = r1.clients
           /\ sockets' = r1.sockets
           /\ heap' = r1.heap
           /\ last' = DidLogin("loginDone", p.s, Has(sockets, p.s), r1.out, FALSE,
                               p.tok, p.id, p.after)
    /\ issued' = issued \cup {p.id}
    /\ listeners' = [listeners EXCEPT ![p.s] = @ + 1]
    /\ UNCHANGED <<conn, nextId, rl, now, logins, msgs, win>>

\* Lines 78, 84, 98: the awaited collaborator rejects; the handler ends there
\* with the rejection.
CollaboratorFails(p) ==
    /\ p \in pending
    /\ p.n = 1
    /\ pending' = RemovePending(pending, p)
    /\ last' = Did("loginFailed", p.s, Has(sockets, p.s), <<>>, TRUE, "")
    /\ UNCHANGED <<conn, clients, sockets, heap, store, nextId, issued,
                   listeners, rl, now, logins, msgs, win>>

\* ----------------------------------------------------------- RateLimit
\* RateLimit.check(key): the first action of a key, or the first after its
\* window has elapsed, opens a window and is allowed; inside a window the
\* actions are allowed until Capacity of them were, and denied after that.
RateLimitCheck(r, key, t) ==
    IF ~Has(r, key) \/ t - r[key].start >= Window
    THEN [ok |-> TRUE, rl |-> Put(r, key, [count |-> 1, start |-> t])]
    ELSE IF r[key].count < Capacity
         THEN [ok |-> TRUE, rl |-> [r EXCEPT ![key].count = @ + 1]]
         ELSE [ok |-> FALSE, rl |-> r]

\* ------------------------------------------------------- message texts
\* A text is known by what the handlers look at: whether a command consumes
\* it, how many characters it has, and how many of the characters that
\* survive the cut of line 156 are HTML-special.
ShortLen == 5
LongLen == 300
MaxSpecial == 1
Texts ==
    {[kind |-> k, len |-> n, special |-> x] :
        k \in {"plain", "say"}, n \in {ShortLen, LongLen}, x \in 0..MaxSpecial}

\* escapeHtml: every HTML-special character is replaced by its entity; the
\* shortest entities ("&lt;", "&gt;") put four characters in the place of one.
EntityLen == 4
EscapeHtml(len, special) == len + special * (EntityLen - 1)

\* Lines 162-170: one usr-msg broadcast.  The id the message gets is a fresh
\* snowflake; nextId stands for the ids handed to identities alone, and the
\* event record does not carry the message's own id.
SendMessage(st, userId, len, special, via) ==
    [st EXCEPT !.out = Append(@, Message(userId, via, EscapeHtml(len, special)))]

\* commandManager.handle(manager, client, text): whether a registered command
\* consumes the text.
IsCommand(text) == text.kind = "say"

\* The handler of the say command: it re-enters sendMessage with the issuer's
\* identity, and needs the issuer for that.
RunCommand(st, reg, s, text) ==
    LET client == Get(reg.sockets, s)
    IN  IF client = NoClient
        THEN [st EXCEPT !.err = TRUE]
        ELSE SendMessage(st, IdOf(reg.heap, client), text.len, text.special, "command")

\* onClientMessageReceived without the return of line 148: a consumed text
\* goes on to the limiter and to sendMessage.
OnClientMessageReceivedFallThrough(st, reg, s, text, t) ==
    LET client == Get(reg.sockets, s)
        st0 == IF IsCommand(text) THEN RunCommand(st, reg, s, text) ELSE st
        chk == RateLimitCheck(st0.rl, s, t)
        st1 == [st0 EXCEPT !.rl = chk.rl]
    IN  IF ~chk.ok
        THEN st1
        ELSE IF client = NoClient
             THEN [st1 EXCEPT !.err = TRUE]
             ELSE SendMessage(st1, IdOf(reg.heap, client),
                              Min(text.len, MaxMessageLength), text.special,
                              "normal")

\* Lines 144-160, one invocation of the usr-msg listener.  st carries what the
\* invocation reads and writes besides the registry: the limiter, the events
\* emitted and whether it threw.
OnClientMessageReceived(st, reg, s, text, t) ==
    LET client == Get(reg.sockets, s)
    IN  IF IsCommand(text)
        THEN RunCommand(st, reg, s, text)
        ELSE LET chk == RateLimitCheck(st.rl, s, t)
                 st1 == [st EXCEPT !.rl = chk.rl]
             IN  IF ~chk.ok
                 THEN st1
                 ELSE IF client = NoClient
                      THEN [st1 EXCEPT !.err = TRUE]
                      ELSE SendMessage(st1, IdOf(reg.heap, client),
                                       Min(text.len, MaxMessageLength), text.special,
                              "normal")

\* socket.io runs every listener installed for the event, in order.
RECURSIVE RunMessageListeners(_, _, _, _, _, _)
RunMessageListeners(k, st, reg, s, text, t) ==
    IF k = 0 THEN st
    ELSE RunMessageListeners(k - 1, OnClientMessageReceived(st, reg, s, text, t),
                             reg, s, text, t)

\* Lines 135-142, one invocation of the usr-typ listener.
OnClientStartTyping(st, reg, s) ==
    LET client == Get(reg.sockets, s)
    IN  IF client = NoClient
        THEN [st EXCEPT !.err = TRUE]
        ELSE [st EXCEPT !.out = Append(@, Ev("usr-typ", 0, IdOf(reg.heap, client)))]

\* A listener that throws ends the dispatch: the listeners after it do not run.
RECURSIVE RunTypingListeners(_, _, _, _)
RunTypingListeners(k, st, reg, s) ==
    IF k = 0 \/ st.err THEN st
    ELSE RunTypingListeners(k - 1, OnClientStartTyping(st, reg, s), reg, s)

\* Bookkeeping for the rate-limit property: the non-command messages a
\* logged-in socket sent since the first of them that came no less than Window
\* after the previous first one, and how many of those were broadcast.
Counted(w, s, t, shown) ==
    LET one == IF shown THEN 1 ELSE 0
    IN  IF ~Has(w, s) \/ t - w[s].start >= Window
        THEN Put(w, s, [start |-> t, sent |-> 1, shown |-> one])
        ELSE [w EXCEPT ![s].sent = @ + 1, ![s].shown = @ + one]

Fresh == [rl |-> rl, out |-> <<>>, err |-> FALSE]

\* A usr-msg event arrives on a socket that has the listeners of line 117.
MessageReceived(s, text) ==
    /\ conn[s] = "open"
    /\ listeners[s] > 0
    /\ msgs' = msgs + 1
    /\ LET st == RunMessageListeners(listeners[s], Fresh, Reg, s, text, now)
       IN  /\ rl' = st.rl
           /\ last' = Did("message", s, Has(sockets, s), st.out, st.err, text.kind)
           /\ win' = IF Has(sockets, s) /\ ~IsCommand(text)
                     THEN Counted(win, s, now, Count(st.out, "usr-msg") > 0)
                     ELSE win
    /\ UNCHANGED <<conn, clients, sockets, heap, store, nextId, issued, pending,
                   listeners, now, logins>>

\* A usr-typ event arrives on a socket that has the listeners of line 116.
StartTyping(s) ==
    /\ conn[s] = "open"
    /\ listeners[s] > 0
    /\ msgs' = msgs + 1
    /\ LET st == RunTypingListeners(listeners[s], Fresh, Reg, s)
       IN  last' = Did("typing", s, Has(sockets, s), st.out, st.err, "")
    /\ UNCHANGED <<conn, clients, sockets, heap, store, nextId, issued, pending,
                   listeners, rl, now, logins, win>>

\* Time passes.
Tick ==
    /\ now' = now + TickMs
    /\ last' = Did("tick", 0, FALSE, <<>>, FALSE, "")
    /\ UNCHANGED <<conn, clients, sockets, heap, store, nextId, issued, pending,
                   listeners, rl, logins, msgs, win>>

\* How many events of each kind one behaviour holds.
Ticks == now \div TickMs
Events == logins + msgs + Ticks
Opened == Cardinality({s \in Socks : conn[s] # "idle"})
Budget(maxSocks, maxLogins, maxMsgs, maxTicks, maxEvents) ==
    [socks |-> maxSocks, logins |-> maxLogins, msgs |-> maxMsgs, ticks |-> maxTicks,
     events |-> maxEvents]

NextWithin(b) ==
    \/ \E s \in Socks : Opened < b.socks /\ OnClientConnected(s)
    \/ \E s \in Socks : Disconnect(s)
    \/ \E s \in Socks, req \in Requests :
          logins < b.logins /\ Events < b.events /\ LoginStart(s, req)
    \/ \E p \in pending : FindOneDone(p)
    \/ \E p \in pending : ImageDone(p)
    \/ \E p \in pending : SaveDone(p)
    \/ \E p \in pending : CollaboratorFails(p)
    \/ \E s \in Socks, text \in Texts :
          msgs < b.msgs /\ Events < b.events /\ MessageReceived(s, text)
    \/ \E s \in Socks : msgs < b.msgs /\ Events < b.events /\ StartTyping(s)
    \/ Ticks < b.ticks /\ Events < b.events /\ Tick

Next == NextWithin(Budget(NumSockets, MaxEvents, MaxEvents, MaxEvents, MaxEvents))
Spec == Init /\ [][Next]_vars

\* The same handlers, with fewer logins and more messages in one behaviour.
NextMsg ==
    NextWithin(Budget(MsgSockets, MsgLogins, MsgMax, MsgTicks, MsgEvents))
SpecMsg == Init /\ [][NextMsg]_vars

\* ---------------------------------------------------------- getMentions
\* A content is a sequence of characters.  String.split(" "): the pieces
\* between single spaces, empty pieces included.
RECURSIVE Split(_, _)
Split(chars, piece) ==
    IF chars = <<>> THEN <<piece>>
    ELSE IF Head(chars) = " "
         THEN <<piece>> \o Split(Tail(chars), <<>>)
         ELSE Split(Tail(chars), Append(piece, Head(chars)))

StartsWith(word, ch) == word # <<>> /\ Head(word) = ch
Substr1(word) == Tail(word)

\* The string a sequence of characters spells.
RECURSIVE Str(_)
Str(chars) == IF chars = <<>> THEN "" ELSE Head(chars) \o Str(Tail(chars))

\* Client.name
NameOf(h, c) == h[c].user.name

\* selectMany: the results of the selector, concatenated in order.
RECURSIVE SelectMany(_)
SelectMany(seqs) ==
    IF seqs = <<>> THEN <<>> ELSE Head(seqs) \o SelectMany(Tail(seqs))

\* Lines 182-184: the ids of the clients of that name, in the order
\* clients.values() hands them out.
IdsNamed(nick, values, h) ==
    LET found == SelectSeq(values, LAMBDA c : NameOf(h, c) = nick)
    IN  [i \in 1..Len(found) |-> IdOf(h, found[i])]

\* getMentions with a comparison of names that ignores case: a mention of
\* "al" finds the client named "Al".
GetMentionsFolded(content, values, h) ==
    LET Fold(n) == IF n = "al" THEN "Al" ELSE n
        words == Split(content, <<>>)
        mentions == SelectSeq(words, LAMBDA w : StartsWith(w, "@"))
    IN  IF content = <<>> THEN <<>>
        ELSE SelectMany([i \in 1..Len(mentions) |->
                 IdsNamed(Fold(Str(Substr1(mentions[i]))), values, h)])

\* Lines 172-186.  values is [...this.clients.values()].
GetMentions(content, values, h) ==
    IF content = <<>>
    THEN <<>>
    ELSE LET words == Split(content, <<>>)
             mentions == SelectSeq(words, LAMBDA w : StartsWith(w, "@"))
             nicks == [i \in 1..Len(mentions) |-> Str(Substr1(mentions[i]))]
         IN  SelectMany([i \in 1..Len(nicks) |-> IdsNamed(nicks[i], values, h)])

\* clients.values() iterates in the order of insertion, which the registry
\* here does not keep: every order of the clients it holds is one it may have.
ValueOrders(reg) ==
    LET refs == {reg.clients[k] : k \in DOMAIN reg.clients}
        n == Cardinality(refs)
    IN  {f \in [1..n -> refs] : \A i, j \in 1..n : i # j => f[i] # f[j]}

\* The same handlers, in behaviours short enough to try every text of a few
\* words in every registry they reach.
MenLogins == 2
MenOthers == 1
MenEvents == 2
NextMen == NextWithin(Budget(NumSockets, MenLogins, MenOthers, MenOthers, MenEvents))
SpecMen == Init /\ [][NextMen]_vars

\* ================================================================ claims
Ids == 1..(nextId - 1)
DisconnectOf(s) == conn[s] = "open" /\ conn'[s] = "closed"
Leaves(out, id) == CountFor(out, "sys-leave", id)
Joins(out, id) == CountFor(out, "sys-join", id)

\* C1: while a connection that logged in as an identity is still connected,
\* the identity is in clients, and a disconnect that leaves another such
\* connection emits no leave for it; the disconnect of the only remaining
\* one removes the identity from clients and emits exactly one leave for it.
C1_LastDisconnectLeaves ==
    [][\A id \in Ids :
          /\ (LiveConns(id) # {})' => Has(clients', id)
          /\ \A s \in LiveConns(id) :
                DisconnectOf(s) =>
                   IF LiveConns(id) = {s}
                   THEN ~Has(clients', id) /\ Leaves(last'.out, id) = 1
                   ELSE Has(clients', id) /\ Leaves(last'.out, id) = 0]_vars

\* C2: every entry of sockets points to the client that clients holds under
\* that client's id, and every client in clients has an entry of sockets
\* pointing to it.
C2_MappingsConsistent ==
    /\ \A s \in DOMAIN sockets :
          /\ Has(clients, IdOf(heap, sockets[s]))
          /\ clients[IdOf(heap, sockets[s])] = sockets[s]
    /\ \A id \in DOMAIN clients : \E s \in DOMAIN sockets : sockets[s] = clients[id]

\* C3: a login with a valid token that begins when another connection, which
\* completed its login as the token's identity, is still connected emits no
\* join, whether it ends in the same step or after its awaits.
C3_SecondLoginNoJoin ==
    (last.op = "loginDone" /\ last.tok = "valid" /\ last.after)
        => Joins(last.out, last.id) = 0

\* C4: right after a leave for an identity is emitted no connection that
\* logged in as that identity is still connected, and the step that emitted
\* it unregistered a connection.
C4_LeaveOnlyOnLastClose ==
    \A id \in Ids :
        Leaves(last.out, id) > 0 =>
            /\ LiveConns(id) = {}
            /\ last.known
            /\ last.op \in {"disconnect", "login", "loginDone"}

\* C5: an identity is in clients exactly when one of its connections is live,
\* and a connection whose disconnect was processed is in neither sockets nor
\* the connection set of any client.
C5_PresentIffLive ==
    /\ \A id \in Ids : Has(clients, id) <=> LiveConns(id) # {}
    /\ \A s \in Socks :
          conn[s] = "closed" =>
              /\ ~Has(sockets, s)
              /\ \A c \in DOMAIN heap : s \notin heap[c].socks

\* C6: a disconnect of a connection that is not in sockets changes neither
\* mapping nor any client, emits nothing and raises nothing; and in every
\* state reached, running onClientDisconnect a second time for a connection
\* changes nothing more and emits nothing.
DisconnectTwiceAsOnce(reg, s) ==
    LET r1 == OnClientDisconnect(reg, s)
        r2 == OnClientDisconnect(
                  [clients |-> r1.clients, sockets |-> r1.sockets, heap |-> r1.heap], s)
    IN  /\ r2.clients = r1.clients
        /\ r2.sockets = r1.sockets
        /\ r2.heap = r1.heap
        /\ r2.out = <<>>

C6_DisconnectIdempotent ==
    [][\A s \in Socks :
          /\ (DisconnectOf(s) /\ ~Has(sockets, s)) =>
                /\ clients' = clients
                /\ sockets' = sockets
                /\ heap' = heap
                /\ last'.out = <<>>
                /\ ~last'.err
          /\ DisconnectTwiceAsOnce(Reg', s)]_vars

\* C6 witness: a connection that is in no mapping disconnects while an
\* identity is registered.
C6_Witness ==
    /\ last.op = "disconnect"
    /\ ~last.known
    /\ DOMAIN clients # {}
    /\ DOMAIN sockets # {}

\* C7: a typing or message event handled for a connection that has no entry
\* in sockets emits nothing and raises nothing.
C7_UnknownConnectionNoOp ==
    (last.op \in {"typing", "message"} /\ ~last.known)
        => (last.out = <<>> /\ ~last.err)

\* C8: a login whose token does not verify raises nothing and goes on with a
\* freshly generated id, as a login without a token does; when it completes,
\* its connection is in sockets, attached to the client that clients holds
\* under that id, and a ready event went to it.
C8_BadTokenDegrades ==
    [][/\ (logins' = logins + 1 /\ last'.tok = "bad") =>
             /\ ~last'.err
             /\ last'.id = nextId
             /\ nextId' = nextId + 1
             /\ last'.id \notin issued
             /\ ~Has(clients, last'.id)
             /\ \E p \in pending' :
                   /\ p.s = last'.s /\ p.id = last'.id /\ p.tok = "bad"
                   /\ p.pc = "findOne"
       /\ (last'.op = "loginDone" /\ last'.tok = "bad") =>
             /\ ~last'.err
             /\ Has(sockets', last'.s)
             /\ IdOf(heap', sockets'[last'.s]) = last'.id
             /\ Get(clients', last'.id) = sockets'[last'.s]
             /\ last'.s \in heap'[sockets'[last'.s]].socks
             /\ \E i \in DOMAIN last'.out :
                   /\ last'.out[i].type = "ready"
                   /\ last'.out[i].to = last'.s
                   /\ last'.out[i].id = last'.id]_vars

\* C8 witness: a login that was given a token that does not verify completed.
C8_Witness ==
    /\ last.op = "loginDone"
    /\ last.tok = "bad"
    /\ Has(sockets, last.s)

\* C9: of the non-command messages a logged-in connection sent within one
\* window, the first Capacity are broadcast and the others are not; the
\* first message after the window has elapsed is broadcast.
C9_FivePerWindow ==
    \A s \in DOMAIN win : win[s].shown = Min(win[s].sent, Capacity)

\* C10: a message that a command consumes leaves the limiter untouched and
\* causes no usr-msg but those the command's handler sends; a message that no
\* command consumes is put to the limiter and causes no usr-msg of a command.
Consulted(s) ==
    /\ Has(rl', s)
    /\ \/ rl' # rl
       \/ Has(rl, s) /\ rl[s].count = Capacity /\ now - rl[s].start < Window

C10_CommandShortCircuit ==
    [][(msgs' = msgs + 1 /\ last'.op = "message") =>
          IF IsCommand([kind |-> last'.text, len |-> 0, special |-> 0])
          THEN /\ rl' = rl
               /\ \A i \in DOMAIN last'.out : last'.out[i].via = "command"
          ELSE /\ Consulted(last'.s)
               /\ \A i \in DOMAIN last'.out : last'.out[i].via = "normal"]_vars

\* C10 witness: a command's message went out for a connection whose window
\* was used up.
C10_Witness ==
    /\ last.op = "message"
    /\ IsCommand([kind |-> last.text, len |-> 0, special |-> 0])
    /\ Has(rl, last.s)
    /\ rl[last.s].count = Capacity
    /\ Count(last.out, "usr-msg") = 1

\* C11: whatever non-command text a logged-in connection sends next, every
\* usr-msg that onClientMessageReceived broadcasts for it carries a content
\* of exactly MaxMessageLength characters when the text is longer than that,
\* and of the text's own length otherwise.
ContentLen(text) ==
    IF text.len > MaxMessageLength THEN MaxMessageLength ELSE text.len

C11_TruncatedTo256 ==
    \A s \in DOMAIN sockets, text \in Texts :
        (listeners[s] > 0 /\ ~IsCommand(text)) =>
            LET st == RunMessageListeners(listeners[s], Fresh, Reg, s, text, now)
            IN  \A i \in DOMAIN st.out :
                    st.out[i].type = "usr-msg" => st.out[i].len = ContentLen(text)

\* C12: for every text of up to MaxWords words and every registry reached,
\* getMentions returns, for the words that begin with "@" taken in the order
\* of the text, the ids of the registered identities whose name is exactly
\* the word without its "@": a repeated mention repeats its ids, a name no
\* identity has adds nothing, and the empty text gives the empty list.
MaxWords == 3
MentionWords ==
    {<<"@", "A", "l">>, <<"@", "B", "o">>, <<"@", "a", "l">>, <<"x", "@", "A", "l">>, <<>>}
WordLists == UNION {[1..n -> MentionWords] : n \in 0..MaxWords}

RECURSIVE JoinWords(_)
JoinWords(ws) ==
    IF ws = <<>> THEN <<>>
    ELSE IF Len(ws) = 1 THEN Head(ws)
         ELSE Head(ws) \o <<" ">> \o JoinWords(Tail(ws))

RECURSIVE MentionedIds(_, _, _)
MentionedIds(ws, values, h) ==
    IF ws = <<>> THEN <<>>
    ELSE LET w == Head(ws)
             ids == IF w # <<>> /\ w[1] = "@"
                    THEN LET at == {i \in 1..Len(values) :
                                       h[values[i]].user.name = Str(SubSeq(w, 2, Len(w)))}
                         IN  [i \in 1..Cardinality(at) |->
                                h[values[CHOOSE k \in at :
                                    Cardinality({j \in at : j <= k}) = i]].user.id]
                    ELSE <<>>
         IN  ids \o MentionedIds(Tail(ws), values, h)

C12_MentionsInTextOrder ==
    \A values \in ValueOrders(Reg), ws \in WordLists :
        GetMentions(JoinWords(ws), values, heap) = MentionedIds(ws, values, heap)

C12_Witness ==
    /\ Cardinality({k \in DOMAIN clients : NameOf(heap, clients[k]) = "Al"}) = 2
    /\ \E values \in ValueOrders(Reg) :
          Len(GetMentions(JoinWords(<<<<"@", "A", "l">>, <<"@", "a", "l">>, <<"@", "A", "l">>>>),
                          values, heap)) = 4

\* C13: the ready event of a completed login names the identity its
\* connection is attached to, and the token it delivers decodes to that
\* identity's id; a login that presents a delivered token takes no fresh id,
\* resolves to the token's id, and, when that id is in clients once the
\* connection's old registration is gone, attaches to the client found there
\* without creating one.
C13_TokenRoundTrip ==
    [][/\ last'.op = "loginDone" =>
            LET s == last'.s
            IN  /\ Has(sockets', s)
                /\ \E i \in DOMAIN last'.out :
                      /\ last'.out[i].type = "ready"
                      /\ last'.out[i].to = s
                      /\ last'.out[i].id = IdOf(heap', sockets'[s])
                /\ IdOf(heap', sockets'[s]) \in issued'
                /\ DecodeOrNull(ValidToken(IdOf(heap', sockets'[s]))) = IdOf(heap', sockets'[s])
                /\ last'.tok = "valid" => IdOf(heap', sockets'[s]) = last'.id
       /\ (logins' = logins + 1 /\ last'.tok = "valid") =>
            LET s == last'.s
                id == last'.id
                r0 == UnregisterIfKnown(Reg, s)
            IN  /\ id \in issued
                /\ nextId' = nextId
                /\ IF Has(r0.clients, id)
                   THEN /\ last'.op = "loginDone"
                        /\ sockets'[s] = r0.clients[id]
                        /\ Len(heap') = Len(heap)
                   ELSE /\ last'.op = "login"
                        /\ \E p \in pending' \ pending : p.s = s /\ p.id = id]_vars

C13_Witness ==
    /\ last.op = "loginDone"
    /\ last.tok = "valid"
    /\ last.id > NumPrior
    /\ Has(sockets, last.s)
    /\ IdOf(heap, sockets[last.s]) = last.id

\* C14: when a login with a valid token, suspended since it found its id
\* absent from clients, completes after another connection was attached to
\* that id meanwhile, it creates no second client: clients keeps the client
\* it holds under the id, the completing connection is attached to that
\* client, and no further join is emitted for the id.
C14_ConcurrentLoginsOneIdentity ==
    [][\A p \in pending :
          (/\ p.pc = "save"
           /\ p.tok = "valid"
           /\ pending' = RemovePending(pending, p)
           /\ last'.op = "loginDone"
           /\ last'.s = p.s
           /\ \E s2 \in DOMAIN sockets :
                 s2 # p.s /\ IdOf(heap, sockets[s2]) = p.id /\ Has(clients, p.id))
          => /\ clients' = clients
             /\ sockets'[p.s] = clients[p.id]
             /\ Len(heap') = Len(heap)
             /\ Joins(last'.out, p.id) = 0]_vars

\* C15: a login that ends because User.findOne, getRandomImage or user.save
\* rejected leaves both mappings and every client as they were and emits
\* nothing, and after it its connection is not in sockets and not in the
\* connection set of any client that clients holds.
C15_FailedLoginNotPromoted ==
    [][last'.op = "loginFailed" =>
          /\ clients' = clients
          /\ sockets' = sockets
          /\ heap' = heap
          /\ last'.out = <<>>
          /\ ~Has(sockets', last'.s)
          /\ \A k \in DOMAIN clients' : last'.s \notin heap'[clients'[k]].socks]_vars

C17_OneReadyBeforeJoin ==
    [][last'.op = "loginDone" =>
          LET out == last'.out
              s == last'.s
          IN  /\ Count(out, "ready") = 1
              /\ \A i \in DOMAIN out :
                    out[i].type = "ready" =>
                       /\ out[i].to = s
                       /\ out[i].members = Members(Reg')
                       /\ Has(sockets', s)
                       /\ out[i].id = IdOf(heap', sockets'[s])
                       /\ out[i].id \in out[i].members
                       /\ \A j \in DOMAIN out : out[j].type = "sys-join" => i < j]_vars

C17_Witness ==
    /\ last.op = "loginDone"
    /\ Joins(last.out, last.id) = 1
    /\ Cardinality(DOMAIN clients) = 2
    /\ \E i \in DOMAIN last.out :
          last.out[i].type = "ready" /\ last.out[i].members = DOMAIN clients

\* C18: the joins and leaves broadcast for one id alternate, a join first.
\* sys-join is broadcast only together with clients.set of that id (lines
\* 104, 120) and sys-leave only together with clients.delete of it (lines
\* 130-131), so up to the first break of the alternation an id is in clients
\* exactly when the last of its joins and leaves was a join: the alternation
\* holds iff every join finds its id absent from clients, every leave finds
\* it present, and no step broadcasts two of them for one id.
C18_JoinLeaveAlternate ==
    [][\A id \in 1..(nextId' - 1) :
          /\ Joins(last'.out, id) + Leaves(last'.out, id) <= 1
          /\ Joins(last'.out, id) = 1 => ~Has(clients, id)
          /\ Leaves(last'.out, id) = 1 => Has(clients, id)]_vars

\* C19: a connection is in the connection set of no client that clients or
\* sockets holds other than the one sockets gives for it.
Held == {clients[k] : k \in DOMAIN clients} \cup {sockets[s] : s \in DOMAIN sockets}

C19_OneIdentityPerConnection ==
    \A s \in Socks, c \in Held :
        s \in heap[c].socks => (Has(sockets, s) /\ sockets[s] = c)

\* C20: a usr-msg event of a logged-in connection that no command consumes
\* and that the limiter allows is broadcast once and takes one unit of the
\* connection's limit; a usr-typ event of a logged-in connection is
\* broadcast once.
C20_OneBroadcastPerEvent ==
    [][/\ (msgs' = msgs + 1 /\ last'.op = "message" /\ last'.known
            /\ ~IsCommand([kind |-> last'.text, len |-> 0, special |-> 0])
            /\ RateLimitCheck(rl, last'.s, now).ok)
          => /\ Count(last'.out, "usr-msg") = 1
             /\ rl' = RateLimitCheck(rl, last'.s, now).rl
       /\ (msgs' = msgs + 1 /\ last'.op = "typing" /\ last'.known)
          => Count(last'.out, "usr-typ") = 1]_vars

====
